---- MODULE Spec2Model ----
(***************************************************************************)
(* A model of flowtools.datamaps.DataMap: the grid of cells of one data    *)
(* map, the passes that flag cells as 'droplet', and the operations that   *)
(* derive new data maps (cut, combine) from it.                            *)
(*                                                                         *)
(* Rows and columns are numbered from 0 as in the source: cells[row][col]  *)
(* is self.cells[row, column].  A cell is the dict of the source, with the *)
(* fields X, Y, N, T, M, U, V and the flag 'droplet'.  N and M are         *)
(* integers; X, Y, T, U and V are exact rationals <<numerator,             *)
(* denominator>>, since combine divides them.                              *)
(***************************************************************************)
EXTENDS Integers, Sequences, FiniteSets, TLC

VARIABLES
    cells,      \* self.cells of the source DataMap: the 2d array of cell dicts
    info,       \* self._info of the source DataMap, set at construction
    derived,    \* the DataMap returned by the last cut or combine, if any
    op,         \* the last operation and its arguments and outcome
    calls,      \* the number of calls made, where a specification caps them
    defaults    \* DataMap.save.__defaults__[0]: the list that save's keyword
                \* 'fields' is bound to in a call without it

vars == <<cells, info, derived, op, calls, defaults>>

\* The default of the keyword 'fields' of save when the module is loaded.
DefaultFields == <<"X", "Y", "N", "T", "M", "U", "V">>

----------------------------------------------------------------------------
(* Bounds of the model. *)

\* The largest number of rows of a source data map.
MaxRows == 3
\* The largest number of columns of a source data map.
MaxCols == 5
\* The largest number of cells of a source data map.
MaxCells == 9
\* The largest 'columns' keyword handed to the connectivity pass.
MaxColumns == 2

----------------------------------------------------------------------------
(* Exact rational arithmetic for the float fields. *)

Abs(a) == IF a < 0 THEN -a ELSE a

Min(a, b) == IF a <= b THEN a ELSE b

Max(a, b) == IF a >= b THEN a ELSE b

RECURSIVE Gcd(_, _)
Gcd(a, b) == IF b = 0 THEN a ELSE Gcd(b, a % b)

\* The rational n/d in lowest terms with a positive denominator.
Rat(n, d) ==
    LET s == IF d < 0 THEN -1 ELSE 1
        g == Gcd(Abs(n), Abs(d))
    IN  <<(s * n) \div g, (s * d) \div g>>

RInt(n) == <<n, 1>>

RAdd(a, b) == Rat(a[1] * b[2] + b[1] * a[2], a[2] * b[2])

RScale(k, a) == Rat(k * a[1], a[2])

RSub(a, b) == Rat(a[1] * b[2] - b[1] * a[2], a[2] * b[2])

RDivInt(a, k) == Rat(a[1], a[2] * k)

----------------------------------------------------------------------------
(* The array of cells. *)

\* cells.shape[0] and cells.shape[1] of a non-empty 2d array.
Shape0(a) == Cardinality(DOMAIN a)

Shape1(a) == IF DOMAIN a = {} THEN 0 ELSE Cardinality(DOMAIN a[0])

\* The row numbers and the column numbers of an array.
Rows(a) == 0 .. Shape0(a) - 1

Cols(a) == 0 .. Shape1(a) - 1

\* The values one sample of the reader can hold (N, T, M, U, V): an empty
\* cell and a filled cell with flow.
Samples ==
    { [N |-> 0, T |-> RInt(0), M |-> 0,  U |-> RInt(0), V |-> RInt(0)],
      [N |-> 2, T |-> RInt(1), M |-> 10, U |-> RInt(1), V |-> RInt(-1)] }

\* The 'min_mass' keywords tried: negative, the default 0, below and above
\* the mass of a filled cell.
MinMasses == {-1, 0, 1, 11}

\* The 'columns' keywords tried: 1 is the default.
Columns == 1 .. MaxColumns

\* The shapes (rows, columns) of the data maps read.
Shapes ==
    {s \in (1 .. MaxRows) \X (1 .. MaxCols) : s[1] * s[2] <= MaxCells}

\* The cell the reader makes of sample s for row i, column j.  Cell centres
\* are 2 apart, starting at 1.  The reader sets no 'droplet' key: the flag
\* is there from the first pass on, and FALSE stands for its absence.
ReadCell(s, i, j) ==
    [X |-> RInt(2 * j + 1), Y |-> RInt(2 * i + 1),
     N |-> s.N, T |-> s.T, M |-> s.M, U |-> s.U, V |-> s.V,
     droplet |-> FALSE]

\* The grid _grid makes of the samples of a map of ny rows and nx columns.
Grid(samples, ny, nx) ==
    [i \in 0 .. ny - 1 |-> [j \in 0 .. nx - 1 |-> ReadCell(samples[i][j], i, j)]]

\* FlatArray.__enter__: array.transpose().ravel(), the cells column by
\* column, as a sequence (cells[0] of the source is flat[1]).
FlatArray(a) ==
    LET ny == Shape0(a)
    IN  [k \in 1 .. ny * Shape1(a) |-> a[(k - 1) % ny][(k - 1) \div ny]]

IndexError == [error |-> "IndexError"]

\* The loop of info that counts the cells of the first column: n is
\* numcells['Y'].  Reading past the last cell raises IndexError, here -1.
RECURSIVE NumCellsY(_, _)
NumCellsY(flat, n) ==
    IF n >= Len(flat) THEN -1
    ELSE IF flat[1].X = flat[n + 1].X THEN NumCellsY(flat, n + 1)
    ELSE n

\* DataMap.info of an array a: the system size, the numbers of cells and
\* the cell size, or the IndexError it raises.
Info(a) ==
    LET flat == FlatArray(a)
        numY == NumCellsY(flat, 0)
    IN  IF Len(flat) = 0 \/ numY = -1 THEN IndexError
        ELSE [size  |-> [X |-> <<flat[1].X, flat[Len(flat)].X>>,
                         Y |-> <<flat[1].Y, flat[Len(flat)].Y>>],
              cells |-> [total_cells |-> Len(flat),
                         num_cells |-> [X |-> Len(flat) \div numY, Y |-> numY],
                         size |-> [X |-> RSub(flat[numY + 1].X, flat[1].X),
                                   Y |-> RSub(flat[2].Y, flat[1].Y)]]]

----------------------------------------------------------------------------
(* The passes that flag droplet cells. *)

\* _cells_flow: the cell holds some flow.
CellsFlowFunc(cell) == cell.U[1] # 0 \/ cell.V[1] # 0

\* Mutants of _cells_min_mass: without the test for an empty cell, and only
\* ever lowering the flag.
CellsMinMassFuncNoZeroTest(cell, min_mass) == cell.M >= min_mass

CellsMinMassFuncNarrowing(cell, min_mass) ==
    cell.droplet /\ (IF cell.M = 0 THEN FALSE ELSE cell.M >= min_mass)

\* _cells_min_mass: the cell holds mass, and not less than min_mass.
CellsMinMassFunc(cell, min_mass) ==
    IF cell.M = 0 THEN FALSE ELSE cell.M >= min_mass

\* Mutant of check_rows: the row below only.
CheckRowsBelowOnly(a, row) == {x \in {row - 1} : x >= 0 /\ x < Shape0(a)}

\* check_rows of _cells_inside: the rows above and below, inside the system.
CheckRows(a, row) == {x \in {row + 1, row - 1} : x >= 0 /\ x < Shape0(a)}

\* check_columns of _cells_inside: the columns from 'column' to the right and
\* from 'column' to the left, num_columns away at most, inside the system.
CheckColumns(a, column, num_columns) ==
    LET nx == Shape1(a)
        inside(x) == x >= 0 /\ x < nx
    IN  << SelectSeq([t \in 1 .. (num_columns + 1) |-> column + (t - 1)], inside),
           SelectSeq([t \in 1 .. (num_columns + 1) |-> column - (t - 1)], inside) >>

\* Mutant of the innermost loop: it does not break at a gap in the own row.
RECURSIVE WalkColumnsNoBreak(_, _, _, _, _)
WalkColumnsNoBreak(a, row, other_row, dir_columns, idx) ==
    IF idx > Len(dir_columns) THEN FALSE
    ELSE LET other_column == dir_columns[idx]
         IN  IF a[row][other_column].droplet /\ a[other_row][other_column].droplet
             THEN TRUE
             ELSE WalkColumnsNoBreak(a, row, other_row, dir_columns, idx + 1)

\* The innermost loop of _cells_inside over dir_columns, from its idx-th
\* column on: it breaks at a column that is not droplet in the cell's own row
\* and returns True at a column that is droplet in both rows.
RECURSIVE WalkColumns(_, _, _, _, _)
WalkColumns(a, row, other_row, dir_columns, idx) ==
    IF idx > Len(dir_columns) THEN FALSE
    ELSE LET other_column == dir_columns[idx]
         IN  IF ~a[row][other_column].droplet THEN FALSE
             ELSE IF a[other_row][other_column].droplet THEN TRUE
             ELSE WalkColumns(a, row, other_row, dir_columns, idx + 1)

\* _cells_inside: the cell at (row, column) is connected to a droplet cell
\* of a neighbouring row.
CellsInsideFunc(a, row, column, num_columns) ==
    LET check_rows == CheckRows(a, row)
        check_columns == CheckColumns(a, column, num_columns)
    IN  \E other_row \in check_rows :
            \E d \in 1 .. 2 :
                WalkColumns(a, row, other_row, check_columns[d], 1)

\* What the decorated function returns for the cell at (i, j) of a.
Func(pass, arg, a, i, j) ==
    CASE pass = "flow"     -> CellsFlowFunc(a[i][j])
      [] pass = "min_mass" -> CellsMinMassFunc(a[i][j], arg)
      [] pass = "inside"   -> CellsInsideFunc(a, i, j, arg)

\* The wrapper of __cells_droplet from its k-th cell on: it walks the rows and
\* in each row the columns, and stores each cell's flag as soon as it has it.
RECURSIVE CellsDroplet(_, _, _, _)
CellsDroplet(pass, arg, a, k) ==
    IF k >= Shape0(a) * Shape1(a) THEN a
    ELSE LET i == k \div Shape1(a)
             j == k % Shape1(a)
         IN  CellsDroplet(pass, arg,
                 [a EXCEPT ![i][j].droplet = Func(pass, arg, a, i, j)], k + 1)

CellsFlow(a) == CellsDroplet("flow", 0, a, 0)

CellsMinMass(a, min_mass) == CellsDroplet("min_mass", min_mass, a, 0)

CellsInside(a, columns) == CellsDroplet("inside", columns, a, 0)

\* DataMap.droplet: the mass pass, then the connectivity pass.
Droplet(a, min_mass, columns) == CellsInside(CellsMinMass(a, min_mass), columns)

----------------------------------------------------------------------------
(* The data map after DataMap(path, min_mass=..., columns=...): read,        *)
(* arranged into the grid, and flagged by droplet().                         *)

NoMap == [kind |-> "none"]

\* A map is constructed when info raises no error.
Init ==
    \E shape \in Shapes :
        \E samples \in [(0 .. shape[1] - 1) -> [(0 .. shape[2] - 1) -> Samples]] :
            LET grid == Grid(samples, shape[1], shape[2])
            IN  /\ Info(grid) # IndexError
                /\ cells = Droplet(grid, 0, 1)
                /\ info = Info(grid)
                /\ derived = NoMap
                /\ op = [name |-> "init"]
                /\ calls = 0
                /\ defaults = DefaultFields

\* self._cells_flow()
DoCellsFlow ==
    /\ cells' = CellsFlow(cells)
    /\ op' = [name |-> "flow"]
    /\ UNCHANGED <<info, derived, calls, defaults>>

\* self._cells_min_mass(min_mass=m)
DoCellsMinMass ==
    \E m \in MinMasses :
        /\ cells' = CellsMinMass(cells, m)
        /\ op' = [name |-> "min_mass", min_mass |-> m]
        /\ UNCHANGED <<info, derived, calls, defaults>>

\* self._cells_inside(columns=c)
DoCellsInside ==
    \E c \in Columns :
        /\ cells' = CellsInside(cells, c)
        /\ op' = [name |-> "inside", columns |-> c]
        /\ UNCHANGED <<info, derived, calls, defaults>>

\* self.droplet(min_mass=m, columns=c)
DoDroplet ==
    \E m \in MinMasses, c \in Columns :
        /\ cells' = Droplet(cells, m, c)
        /\ op' = [name |-> "droplet", min_mass |-> m, columns |-> c]
        /\ UNCHANGED <<info, derived, calls, defaults>>

Next == DoCellsFlow \/ DoCellsMinMass \/ DoCellsInside \/ DoDroplet

Spec == Init /\ [][Next]_vars

----------------------------------------------------------------------------
(* Data maps derived from the source: cut and combine.                       *)
(*                                                                           *)
(* Both make the new map's array by slicing self.cells.  A basic slice of a  *)
(* numpy array is a view: it shares the slots of the array it is taken from, *)
(* and the slots hold the cell dicts themselves.  A derived map is therefore *)
(* the window of 'cells' it shows: rows[1] .. rows[2] - 1 and cols[1] ..     *)
(* cols[2] - 1.  A map from cut carries its _info; one from combine has none.*)

\* The bounds lo, hi of the slice start:stop of an axis of n entries.
SliceIndex(n, v) == IF v < 0 THEN Max(v + n, 0) ELSE Min(v, n)

Slice(n, start, stop) ==
    LET lo == SliceIndex(n, start)
        hi == SliceIndex(n, stop)
    IN  <<lo, Max(lo, hi)>>

\* The array a derived map d shows of the array a.
DerivedCells(a, d) ==
    [i \in 0 .. (d.rows[2] - d.rows[1] - 1) |->
        [j \in 0 .. (d.cols[2] - d.cols[1] - 1) |->
            a[d.rows[1] + i][d.cols[1] + j]]]

\* The array a with the cells of b stored through the window of d.
StoreDerived(a, d, b) ==
    [i \in DOMAIN a |->
        [j \in DOMAIN a[i] |->
            IF /\ i >= d.rows[1] /\ i < d.rows[2]
               /\ j >= d.cols[1] /\ j < d.cols[2]
            THEN b[i - d.rows[1]][j - d.cols[1]]
            ELSE a[i][j]]]

\* DataMap.cut(cutx=cutx, cuty=cuty, input_is_cells=True) on the array a:
\* the map of the cells cutx[1] .. cutx[2], cuty[1] .. cuty[2], or the
\* IndexError that info raises on it.
Cut(a, cutx, cuty) ==
    LET data_map == [kind |-> "cut",
                     rows |-> Slice(Shape0(a), cuty[1], cuty[2] + 1),
                     cols |-> Slice(Shape1(a), cutx[1], cutx[2] + 1)]
        data_info == Info(DerivedCells(a, data_map))
    IN  IF data_info = IndexError THEN IndexError
        ELSE [kind |-> "cut", rows |-> data_map.rows, cols |-> data_map.cols,
              info |-> data_info]

\* find_cells of combine: the columns and the rows of the source that go
\* into the cell 'cell' of the combined map.
FindCells(cell, num_combine) ==
    [X |-> <<cell.X * num_combine.X, (cell.X + 1) * num_combine.X - 1>>,
     Y |-> <<cell.Y * num_combine.Y, (cell.Y + 1) * num_combine.Y - 1>>]

\* The loop of combine_cells from the i-th cell of cell_list on: N, M and
\* the positions are summed, U and V weighted by M, T weighted by N.
RECURSIVE AddCells(_, _, _)
AddCells(cell_list, i, final) ==
    IF i > Len(cell_list) THEN final
    ELSE LET cell == cell_list[i]
         IN  AddCells(cell_list, i + 1,
                 [X |-> RAdd(final.X, cell.X),
                  Y |-> RAdd(final.Y, cell.Y),
                  M |-> final.M + cell.M,
                  N |-> final.N + cell.N,
                  U |-> RAdd(final.U, RScale(cell.M, cell.U)),
                  V |-> RAdd(final.V, RScale(cell.M, cell.V)),
                  T |-> RAdd(final.T, RScale(cell.N, cell.T)),
                  droplet |-> final.droplet \/ cell.droplet])

\* Mutant of combine_cells: the first cell of the list is left out.
CombineCellsSkipFirst(all_cells) ==
    LET cell_list == FlatArray(all_cells)
        sum == AddCells(cell_list, 2,
                   [X |-> RInt(0), Y |-> RInt(0), N |-> 0, M |-> 0,
                    T |-> RInt(0), U |-> RInt(0), V |-> RInt(0),
                    droplet |-> FALSE])
    IN  [sum EXCEPT
            !.X = RDivInt(sum.X, Len(cell_list)),
            !.Y = RDivInt(sum.Y, Len(cell_list)),
            !.U = IF sum.M > 0 THEN RDivInt(sum.U, sum.M) ELSE sum.U,
            !.V = IF sum.M > 0 THEN RDivInt(sum.V, sum.M) ELSE sum.V,
            !.T = IF sum.N > 0 THEN RDivInt(sum.T, sum.N) ELSE sum.T]

\* Mutant of combine_cells: the mass flow is divided by the number of atoms
\* instead of the mass.
CombineCellsWrongTotal(all_cells) ==
    LET cell_list == FlatArray(all_cells)
        sum == AddCells(cell_list, 1,
                   [X |-> RInt(0), Y |-> RInt(0), N |-> 0, M |-> 0,
                    T |-> RInt(0), U |-> RInt(0), V |-> RInt(0),
                    droplet |-> FALSE])
    IN  [sum EXCEPT
            !.X = RDivInt(sum.X, Len(cell_list)),
            !.Y = RDivInt(sum.Y, Len(cell_list)),
            !.U = IF sum.N > 0 THEN RDivInt(sum.U, sum.N) ELSE sum.U,
            !.V = IF sum.N > 0 THEN RDivInt(sum.V, sum.N) ELSE sum.V,
            !.T = IF sum.N > 0 THEN RDivInt(sum.T, sum.N) ELSE sum.T]

\* Mutant of combine_cells: the mass flow is not divided by the mass.
CombineCellsNoDivide(all_cells) ==
    LET cell_list == FlatArray(all_cells)
        sum == AddCells(cell_list, 1,
                   [X |-> RInt(0), Y |-> RInt(0), N |-> 0, M |-> 0,
                    T |-> RInt(0), U |-> RInt(0), V |-> RInt(0),
                    droplet |-> FALSE])
    IN  [sum EXCEPT
            !.X = RDivInt(sum.X, Len(cell_list)),
            !.Y = RDivInt(sum.Y, Len(cell_list)),
            !.T = IF sum.N > 0 THEN RDivInt(sum.T, sum.N) ELSE sum.T]

\* combine_cells: the cell that the cells of the array all_cells combine to.
CombineCells(all_cells) ==
    LET cell_list == FlatArray(all_cells)
        sum == AddCells(cell_list, 1,
                   [X |-> RInt(0), Y |-> RInt(0), N |-> 0, M |-> 0,
                    T |-> RInt(0), U |-> RInt(0), V |-> RInt(0),
                    droplet |-> FALSE])
    IN  [sum EXCEPT
            !.X = RDivInt(sum.X, Len(cell_list)),
            !.Y = RDivInt(sum.Y, Len(cell_list)),
            !.U = IF sum.M > 0 THEN RDivInt(sum.U, sum.M) ELSE sum.U,
            !.V = IF sum.M > 0 THEN RDivInt(sum.V, sum.M) ELSE sum.V,
            !.T = IF sum.N > 0 THEN RDivInt(sum.T, sum.N) ELSE sum.T]

\* The loops of combine over the cells of the new map, from the k-th on: x
\* is the outer loop, y the inner.  Each cell is cut from the array and the
\* combined cell stored in combined.cells[y, x], which is the slot [y, x] of
\* the array itself.  An error of cut ends the loops where they are.
RECURSIVE CombineLoop(_, _, _, _)
CombineLoop(a, num_combine, num_cells, k) ==
    IF k >= num_cells.X * num_cells.Y THEN [cells |-> a, result |-> "ok"]
    ELSE LET x == k \div num_cells.Y
             y == k % num_cells.Y
             found == FindCells([X |-> x, Y |-> y], num_combine)
             new == Cut(a, found.X, found.Y)
         IN  IF new = IndexError THEN [cells |-> a, result |-> "IndexError"]
             ELSE CombineLoop(
                      [a EXCEPT ![y][x] = CombineCells(DerivedCells(a, new))],
                      num_combine, num_cells, k + 1)

\* num_cells of combine: the numbers of cells of the combined map.
NumCells(inf, nx, ny) ==
    [X |-> inf.cells.num_cells.X \div nx, Y |-> inf.cells.num_cells.Y \div ny]

\* DataMap.combine(nx, ny) on the array a of a map with _info inf: the array
\* after the call and the map returned, or the error raised.
Combine(a, inf, nx, ny) ==
    LET num_cells == NumCells(inf, nx, ny)
        done == CombineLoop(a, [X |-> nx, Y |-> ny], num_cells, 0)
    IN  [cells |-> done.cells,
         result |-> done.result,
         combined |-> IF done.result = "ok"
                      THEN [kind |-> "combined",
                            rows |-> Slice(Shape0(a), 0, num_cells.Y),
                            cols |-> Slice(Shape1(a), 0, num_cells.X)]
                      ELSE NoMap]

----------------------------------------------------------------------------
(* The data map with the maps derived from it. *)

\* The largest number of rows, of columns and of cells of a source map.
MaxMapRows == 3

MaxMapCols == 4

MaxMapCells == 6

\* The largest nx and ny handed to combine.
MaxCombine == 2

\* The largest number of calls made on a constructed map that is combined.
MaxCalls == 1

\* The largest number of calls made on a constructed map that is cut.
MaxCutCalls == 2

\* The 'min_mass' keywords tried on these maps: between the masses of the
\* samples and above them.
MapMinMasses == {5, 11}

\* The samples of these maps: an empty cell, a light cell at rest and a
\* heavy cell with flow.
MapSamples ==
    { [N |-> 0, T |-> RInt(0), M |-> 0,  U |-> RInt(0), V |-> RInt(0)],
      [N |-> 1, T |-> RInt(3), M |-> 1,  U |-> RInt(0), V |-> RInt(2)],
      [N |-> 2, T |-> RInt(1), M |-> 10, U |-> RInt(1), V |-> RInt(-1)] }

MapShapes ==
    {s \in (1 .. MaxMapRows) \X (1 .. MaxMapCols) : s[1] * s[2] <= MaxMapCells}

\* The map constructed from the samples of the set S.
Constructed(S) ==
    \E shape \in MapShapes :
        \E samples \in [(0 .. shape[1] - 1) -> [(0 .. shape[2] - 1) -> S]] :
            LET grid == Grid(samples, shape[1], shape[2])
            IN  /\ Info(grid) # IndexError
                /\ cells = Droplet(grid, 0, 1)
                /\ info = Info(grid)
                /\ derived = NoMap
                /\ op = [name |-> "init"]
                /\ calls = 0
                /\ defaults = DefaultFields

InitCombine == Constructed(MapSamples)

InitCut == Constructed(Samples)

\* combined = self.combine(nx, ny)
DoCombine(cap) ==
    \E nx \in 1 .. MaxCombine, ny \in 1 .. MaxCombine :
        LET r == Combine(cells, info, nx, ny)
        IN  /\ calls < cap
            /\ cells' = r.cells
            /\ derived' = r.combined
            /\ op' = [name |-> "combine", nx |-> nx, ny |-> ny, result |-> r.result]
            /\ calls' = calls + 1
            /\ UNCHANGED <<info, defaults>>

\* data_map = self.cut(cutx=[x0, x1], cuty=[y0, y1], input_is_cells=True)
DoCut(cap) ==
    \E x0 \in Cols(cells), x1 \in Cols(cells), y0 \in Rows(cells), y1 \in Rows(cells) :
        LET r == Cut(cells, <<x0, x1>>, <<y0, y1>>)
        IN  /\ calls < cap
            /\ x0 <= x1 /\ y0 <= y1
            /\ derived' = IF r = IndexError THEN NoMap ELSE r
            /\ op' = [name |-> "cut", cutx |-> <<x0, x1>>, cuty |-> <<y0, y1>>,
                      result |-> IF r = IndexError THEN "IndexError" ELSE "ok"]
            /\ calls' = calls + 1
            /\ UNCHANGED <<cells, info, defaults>>

\* self.droplet(min_mass=m) on the source map
DoDropletSource(cap) ==
    \E m \in MapMinMasses :
        /\ calls < cap
        /\ cells' = Droplet(cells, m, 1)
        /\ op' = [name |-> "droplet", min_mass |-> m, columns |-> 1]
        /\ calls' = calls + 1
        /\ UNCHANGED <<info, derived, defaults>>

\* data_map.droplet(min_mass=m) on the derived map
DoDropletDerived(cap) ==
    \E m \in MapMinMasses :
        /\ calls < cap
        /\ derived # NoMap
        /\ cells' = StoreDerived(cells, derived,
                        Droplet(DerivedCells(cells, derived), m, 1))
        /\ op' = [name |-> "droplet_derived", min_mass |-> m, columns |-> 1]
        /\ calls' = calls + 1
        /\ UNCHANGED <<info, derived, defaults>>

NextCombine == DoCombine(MaxCalls) \/ DoDropletSource(MaxCalls)

SpecCombine == InitCombine /\ [][NextCombine]_vars

NextCut ==
    \/ DoCut(MaxCutCalls)
    \/ DoDropletSource(MaxCutCalls)
    \/ DoDropletDerived(MaxCutCalls)

SpecCut == InitCut /\ [][NextCut]_vars

----------------------------------------------------------------------------
(* Properties of the classification passes. *)

Passes == {"flow", "min_mass", "inside"}

\* C3: on a data map with a single row the connectivity pass leaves every
\* droplet flag as it was.
C3_SingleRowUnchanged ==
    [][(op'.name = "inside" /\ Shape0(cells) = 1) => cells' = cells]_vars

\* C4: every pass only narrows: a cell that is not droplet before a pass is
\* not droplet after it.
C4_PassesOnlyNarrow ==
    [][op'.name \in Passes =>
        \A i \in Rows(cells), j \in Cols(cells) :
            ~cells[i][j].droplet => ~cells'[i][j].droplet]_vars

\* C5: the connectivity pass, which stores each flag while it walks the
\* cells, gives every cell the flag that the cell's test gives on the flags
\* as they were before the pass.
C5_InsideOrderIndependent ==
    [][op'.name = "inside" =>
        \A i \in Rows(cells), j \in Cols(cells) :
            cells'[i][j].droplet = CellsInsideFunc(cells, i, j, op'.columns)]_vars

\* A connectivity pass has run on a map of several rows, has kept some cells
\* and has left some filled cells out.
C5_Witness ==
    /\ op.name = "inside"
    /\ Shape0(cells) >= 2
    /\ \E i \in Rows(cells), j \in Cols(cells) : cells[i][j].droplet
    /\ \E i \in Rows(cells), j \in Cols(cells) :
           cells[i][j].M # 0 /\ ~cells[i][j].droplet

\* The columns of a within n of column j.
Window(a, j, n) == {k \in Cols(a) : k >= j - n /\ k <= j + n}

\* The two-row lookahead: a neighbouring row holds a droplet cell within n
\* columns of (i, j), and the row two away in the same direction holds a
\* droplet cell within n columns of that one.
TwoRowLookahead(a, i, j, n) ==
    \E d \in {1, -1} :
        /\ i + 2 * d \in Rows(a)
        /\ \E k \in Window(a, j, n) :
               /\ a[i + d][k].droplet
               /\ \E k2 \in Window(a, k, n) : a[i + 2 * d][k2].droplet

OneRowAnchored(a, i, j, n) ==
    \E r \in {i + 1, i - 1} \cap Rows(a) :
        \E k \in Window(a, j, n) :
            /\ a[r][k].droplet
            /\ \A c \in Min(j, k) .. Max(j, k) : a[i][c].droplet

C7_MinMassExact ==
    [][op'.name = "min_mass" =>
        \A i \in Rows(cells), j \in Cols(cells) :
            cells'[i][j].droplet =
                (cells[i][j].M # 0 /\ cells[i][j].M >= op'.min_mass)]_vars

\* The example: a 3x3 map, all cells filled but the centre, after the mass
\* pass with min_mass = 1: the centre alone is not droplet.
C7_Witness ==
    /\ op.name = "min_mass" /\ op.min_mass = 1
    /\ Shape0(cells) = 3 /\ Shape1(cells) = 3
    /\ \A i \in Rows(cells), j \in Cols(cells) :
           /\ cells[i][j].M = (IF i = 1 /\ j = 1 THEN 0 ELSE 10)
           /\ cells[i][j].droplet = ~(i = 1 /\ j = 1)

\* The cells of a with every droplet flag set to b.
AllFlags(a, b) ==
    [i \in Rows(a) |-> [j \in Cols(a) |-> [a[i][j] EXCEPT !.droplet = b]]]

----------------------------------------------------------------------------
(* Properties of cut and combine. *)

\* C1: combine leaves the source untouched: after the call every cell of the
\* source has the position, N, M, T, U, V and droplet flag it had before.
C1_CombineLeavesSource ==
    [][op'.name = "combine" => cells' = cells]_vars

\* C2: a map returned by cut shares no cell state with its source: droplet()
\* on the cut map changes no cell of the source, and droplet() on the source
\* changes no cell of the cut map.
C2_CutSharesNothing ==
    [][/\ (op'.name = "droplet_derived" /\ derived.kind = "cut") => cells' = cells
       /\ (op'.name = "droplet" /\ derived.kind = "cut") =>
              DerivedCells(cells', derived') = DerivedCells(cells, derived)]_vars

\* The cells of a that go into the cell (row y, column x) of the map
\* combined with nx and ny: rows ny*y .. ny*y+ny-1, columns nx*x .. nx*x+nx-1.
Block(a, x, y, nx, ny) ==
    [i \in 0 .. ny - 1 |-> [j \in 0 .. nx - 1 |-> a[ny * y + i][nx * x + j]]]

BlockIndices(x, y, nx, ny) ==
    (ny * y .. ny * y + ny - 1) \X (nx * x .. nx * x + nx - 1)

RECURSIVE SumM(_, _)
SumM(a, S) ==
    IF S = {} THEN 0
    ELSE LET p == CHOOSE q \in S : TRUE
         IN  a[p[1]][p[2]].M + SumM(a, S \ {p})

RECURSIVE SumN(_, _)
SumN(a, S) ==
    IF S = {} THEN 0
    ELSE LET p == CHOOSE q \in S : TRUE
         IN  a[p[1]][p[2]].N + SumN(a, S \ {p})

\* C10: after a combine that succeeds, N and M of each combined cell are the
\* sums of N and M over its block of the source as it was, its droplet flag
\* is the OR of the block's flags, and the mass of the combined map is the
\* mass of the source cells that are in some block.
C10_CombineSums ==
    [][(op'.name = "combine" /\ op'.result = "ok") =>
        LET combined == DerivedCells(cells', derived')
            inblocks == (0 .. Shape0(combined) * op'.ny - 1)
                            \X (0 .. Shape1(combined) * op'.nx - 1)
        IN  /\ \A y \in Rows(combined), x \in Cols(combined) :
                   LET S == BlockIndices(x, y, op'.nx, op'.ny)
                   IN  /\ combined[y][x].N = SumN(cells, S)
                       /\ combined[y][x].M = SumM(cells, S)
                       /\ combined[y][x].droplet =
                              (\E p \in S : cells[p[1]][p[2]].droplet)
            /\ SumM(combined, Rows(combined) \X Cols(combined))
                   = SumM(cells, inblocks)]_vars

\* A combine has succeeded on a map with a remainder of columns or rows; a
\* combined cell holds a light and a heavy cell and is droplet, another is
\* not droplet.
C10_Witness ==
    /\ op.name = "combine" /\ op.result = "ok"
    /\ (Shape1(cells) % op.nx # 0 \/ Shape0(cells) % op.ny # 0)
    /\ LET combined == DerivedCells(cells, derived)
       IN  /\ \E y \in Rows(combined), x \in Cols(combined) :
                  combined[y][x].M = 11 /\ combined[y][x].droplet
           /\ \E y \in Rows(combined), x \in Cols(combined) :
                  ~combined[y][x].droplet

----------------------------------------------------------------------------
(* The means of combine. *)

\* The largest number of cells of a map whose means are checked.
MaxMeanCells == 4

\* The samples of these maps: an empty cell, a cell without mass or atoms
\* that holds values all the same, two heavy cells, and a light cell that
\* shares its U with one of them.
MeanSamples ==
    { [N |-> 0, T |-> RInt(0), M |-> 0,  U |-> RInt(0), V |-> RInt(0)],
      [N |-> 0, T |-> RInt(2), M |-> 0,  U |-> RInt(3), V |-> RInt(1)],
      [N |-> 2, T |-> RInt(1), M |-> 10, U |-> RInt(1), V |-> RInt(-1)],
      [N |-> 1, T |-> RInt(3), M |-> 10, U |-> RInt(3), V |-> RInt(1)],
      [N |-> 1, T |-> RInt(3), M |-> 1,  U |-> RInt(3), V |-> RInt(2)] }

\* The samples of a row of four heavy cells with U from 1 to 4.
RowSamples ==
    { [N |-> 2, T |-> RInt(1), M |-> 10, U |-> RInt(u), V |-> RInt(0)] :
          u \in 1 .. 4 }

MeanShapes ==
    {s \in (1 .. MaxMapRows) \X (1 .. MaxMapCols) : s[1] * s[2] <= MaxMeanCells}

\* The map of one of the shapes constructed from the samples of the set S.
ConstructedOf(shapes, S) ==
    \E shape \in shapes :
        \E samples \in [(0 .. shape[1] - 1) -> [(0 .. shape[2] - 1) -> S]] :
            LET grid == Grid(samples, shape[1], shape[2])
            IN  /\ Info(grid) # IndexError
                /\ cells = Droplet(grid, 0, 1)
                /\ info = Info(grid)
                /\ derived = NoMap
                /\ op = [name |-> "init"]
                /\ calls = 0
                /\ defaults = DefaultFields

InitMeans ==
    \/ ConstructedOf(MeanShapes, MeanSamples)
    \/ ConstructedOf({<<1, 4>>}, RowSamples)

NextMeans == DoCombine(MaxCalls)

SpecMeans == InitMeans /\ [][NextMeans]_vars

\* The sum over the cells of a at the positions S of weight times field.
RECURSIVE SumWeighted(_, _, _, _)
SumWeighted(a, S, weight, field) ==
    IF S = {} THEN RInt(0)
    ELSE LET p == CHOOSE q \in S : TRUE
             cell == a[p[1]][p[2]]
         IN  RAdd(RScale(cell[weight], cell[field]),
                  SumWeighted(a, S \ {p}, weight, field))

\* The mean of field weighted by weight over the positions S, 0 when the
\* weights sum to 0.
WeightedMean(a, S, weight, field, total) ==
    IF total = 0 THEN RInt(0)
    ELSE RDivInt(SumWeighted(a, S, weight, field), total)

SharedU(a, S) == \A p \in S, q \in S : a[p[1]][p[2]].U = a[q[1]][q[2]].U

----------------------------------------------------------------------------
(* cut by system positions. *)

\* The largest numbers of rows and of columns of a map that is cut by
\* positions.
MaxPosRows == 3

MaxPosCols == 4

\* float('-inf') and float('inf'): a rational with denominator 0 compares
\* as they do.
NegInf == <<-1, 0>>

PosInf == <<1, 0>>

RLess(a, b) == a[1] * b[2] < b[1] * a[2]

\* max(a, b) and min(a, b) of Python on floats.
RMax(a, b) == IF RLess(a, b) THEN b ELSE a

RMin(a, b) == IF RLess(b, a) THEN b ELSE a

\* a / b for b # 0.
RDiv(a, b) == Rat(a[1] * b[2], a[2] * b[1])

\* math.floor and math.ceil
RFloor(a) == a[1] \div a[2]

RCeil(a) == -((-a[1]) \div a[2])

ZeroDivisionError == [error |-> "ZeroDivisionError"]

\* max_cell, min_cell and min_max_cell of cut.
MaxCell(cut, start, size, top_cell) ==
    Min(top_cell, RFloor(RSub(RDiv(RSub(cut, start), size), <<1, 2>>)))

MinCell(cut, start, size) ==
    Max(0, RCeil(RAdd(RDiv(RSub(cut, start), size), <<1, 2>>)))

MinMaxCell(cut, start, size, num_cells) ==
    <<MinCell(cut[1], start, size), MaxCell(cut[2], start, size, num_cells)>>

\* DataMap.cut(cutx=cutx, cuty=cuty) on the array a of a map with _info inf:
\* the ranges are clipped to the system size, turned into cell numbers and
\* the array sliced.  The division by a cell size of 0 raises.
CutPositions(a, inf, cutx, cuty) ==
    LET clipx == <<RMax(cutx[1], inf.size.X[1]), RMin(cutx[2], inf.size.X[2])>>
        clipy == <<RMax(cuty[1], inf.size.Y[1]), RMin(cuty[2], inf.size.Y[2])>>
        start == [X |-> inf.size.X[1], Y |-> inf.size.Y[1]]
        cell_size == inf.cells.size
        num_cells == inf.cells.num_cells
    IN  IF cell_size.X[1] = 0 \/ cell_size.Y[1] = 0 THEN ZeroDivisionError
        ELSE LET cx == MinMaxCell(clipx, start.X, cell_size.X, num_cells.X)
                 cy == MinMaxCell(clipy, start.Y, cell_size.Y, num_cells.Y)
                 data_map == [kind |-> "cut",
                              rows |-> Slice(Shape0(a), cy[1], cy[2] + 1),
                              cols |-> Slice(Shape1(a), cx[1], cx[2] + 1)]
                 data_info == Info(DerivedCells(a, data_map))
             IN  IF data_info = IndexError THEN IndexError
                 ELSE [kind |-> "cut", rows |-> data_map.rows,
                       cols |-> data_map.cols, info |-> data_info]

\* The ranges handed to cut: the default, the bounding box of a map of four
\* columns, two ranges inside it, one across its lower edge, and two that
\* are inverted.
PosRanges ==
    { <<NegInf, PosInf>>, <<RInt(1), RInt(7)>>, <<RInt(2), RInt(6)>>,
      <<RInt(3), RInt(5)>>, <<RInt(0), RInt(4)>>,
      <<RInt(5), RInt(2)>>, <<RInt(2), RInt(-2)>> }

PosShapes == (1 .. MaxPosRows) \X (1 .. MaxPosCols)

InitPositions == ConstructedOf(PosShapes, Samples)

\* data_map = self.cut(cutx=cutx, cuty=cuty)
DoCutPositions(cap) ==
    \E cutx \in PosRanges, cuty \in PosRanges :
        LET r == CutPositions(cells, info, cutx, cuty)
        IN  /\ calls < cap
            /\ derived' = IF "error" \in DOMAIN r THEN NoMap ELSE r
            /\ op' = [name |-> "cut_positions", cutx |-> cutx, cuty |-> cuty,
                      result |-> IF "error" \in DOMAIN r THEN r.error ELSE "ok"]
            /\ calls' = calls + 1
            /\ UNCHANGED <<cells, info, defaults>>

NextPositions == DoCutPositions(MaxCalls)

SpecPositions == InitPositions /\ [][NextPositions]_vars

\* The positions (row, column) of the cells of a whose centres are inside
\* the inclusive ranges cutx and cuty.
InRange(a, cutx, cuty) ==
    {p \in Rows(a) \X Cols(a) :
        LET cell == a[p[1]][p[2]]
        IN  /\ ~RLess(cell.X, cutx[1]) /\ ~RLess(cutx[2], cell.X)
            /\ ~RLess(cell.Y, cuty[1]) /\ ~RLess(cuty[2], cell.Y)}

\* The positions of the cells of a that the derived map d shows.
Shown(d) ==
    IF d = NoMap THEN {}
    ELSE (d.rows[1] .. d.rows[2] - 1) \X (d.cols[1] .. d.cols[2] - 1)

\* C13: a cut by positions that are not inverted returns the map of exactly
\* the cells whose centres are inside the inclusive ranges; with ranges that
\* cover the bounding box it returns all cells.
C13_CutKeepsRange ==
    [][(/\ op'.name = "cut_positions"
        /\ ~RLess(op'.cutx[2], op'.cutx[1])
        /\ ~RLess(op'.cuty[2], op'.cuty[1])
        /\ InRange(cells, op'.cutx, op'.cuty) # {}) =>
           /\ op'.result = "ok"
           /\ Shown(derived') = InRange(cells, op'.cutx, op'.cuty)]_vars

\* The range r is inverted: its minimum is greater than its maximum.
Inverted(r) == RLess(r[2], r[1])

\* C14: a cut with an inverted range raises no error and returns an empty
\* map.
C14_InvertedCutEmpty ==
    [][(/\ op'.name = "cut_positions"
        /\ (Inverted(op'.cutx) \/ Inverted(op'.cuty))) =>
           /\ op'.result = "ok"
           /\ Shown(derived') = {}]_vars

----------------------------------------------------------------------------
(* The interface of the droplet, its floor and its contact angles. *)

\* The largest numbers of rows, of columns and of cells of a map whose
\* interface is taken.
MaxFaceRows == 5

MaxFaceCols == 3

MaxFaceCells == 10

\* The largest num_layers and the largest floor handed to contactangle.
MaxLayers == 3

MaxFloor == 2

\* The point interface records for the cell at row i, column j: its
\* numbers [j, i] or its position [X, Y].
Point(a, get_cell_numbers, i, j) ==
    IF get_cell_numbers THEN <<j, i>> ELSE <<a[i][j].X, a[i][j].Y>>

\* The first loop over a row in interface: the point of the first droplet
\* cell, or nothing.
LeftOfRow(a, get_cell_numbers, i) ==
    LET found == {c \in Cols(a) : a[i][c].droplet}
    IN  IF found = {} THEN <<>>
        ELSE <<Point(a, get_cell_numbers, i,
                     CHOOSE c \in found : \A d \in found : c <= d)>>

\* The second loop over a row in interface, over reversed(row): the point
\* of the last droplet cell, or nothing.
RightOfRow(a, get_cell_numbers, i) ==
    LET found == {c \in Cols(a) : a[i][c].droplet}
    IN  IF found = {} THEN <<>>
        ELSE <<Point(a, get_cell_numbers, i,
                     CHOOSE c \in found : \A d \in found : c >= d)>>

\* cells['left'] and cells['right'] of interface after the rows from i on.
RECURSIVE LeftCells(_, _, _)
LeftCells(a, get_cell_numbers, i) ==
    IF i >= Shape0(a) THEN <<>>
    ELSE LeftOfRow(a, get_cell_numbers, i)
             \o LeftCells(a, get_cell_numbers, i + 1)

RECURSIVE RightCells(_, _, _)
RightCells(a, get_cell_numbers, i) ==
    IF i >= Shape0(a) THEN <<>>
    ELSE RightOfRow(a, get_cell_numbers, i)
             \o RightCells(a, get_cell_numbers, i + 1)

\* reversed(list)
Reversed(list) == [k \in 1 .. Len(list) |-> list[Len(list) + 1 - k]]

\* Mutant of interface: the right cells are not reversed.
InterfaceNotReversed(a, get_cell_numbers) ==
    LeftCells(a, get_cell_numbers, 0) \o RightCells(a, get_cell_numbers, 0)

\* DataMap.interface
Interface(a, get_cell_numbers) ==
    LeftCells(a, get_cell_numbers, 0)
        \o Reversed(RightCells(a, get_cell_numbers, 0))

\* None, where a row number is expected.
None == -1

\* Mutant of floor: the search goes on to the last row with a droplet cell.
FloorLast(a) ==
    LET found == {row \in Rows(a) : \E j \in Cols(a) : a[row][j].droplet}
    IN  IF found = {} THEN None
        ELSE CHOOSE row \in found : \A r \in found : row >= r

\* DataMap.floor: the first row with a droplet cell, or None.
Floor(a) ==
    LET found == {row \in Rows(a) : \E j \in Cols(a) : a[row][j].droplet}
    IN  IF found = {} THEN None
        ELSE CHOOSE row \in found : \A r \in found : row <= r

RaisedException == [error |-> "Exception"]

RAbs(a) == <<Abs(a[1]), a[2]>>

\* list[i] of Python for a list held as a sequence: i < 0 counts from the
\* end.
Item(list, i) == IF i < 0 THEN list[Len(list) + i + 1] ELSE list[i + 1]

\* angle of contactangle: the angle is arccos(dx / sqrt(dx^2 + dy^2)) in
\* degrees, held as the pair of dx and dy it is taken of.
Angle(side, mid) ==
    [dx |-> RSub(RAbs(RSub(mid, side.bottom[1])), RAbs(RSub(mid, side.top[1]))),
     dy |-> RSub(side.top[2], side.bottom[2])]

\* Mutant of contactangle: the height is tested against the number of
\* points of the interface, not half of it.
ContactAngleNoTest(a, num_layers, floor) ==
    IF floor < 0 \/ num_layers < 1 THEN RaisedException
    ELSE LET interface == Interface(a, FALSE)
         IN  IF floor + num_layers >= Len(interface) THEN RaisedException
             ELSE LET left == [bottom |-> Item(interface, floor),
                               top |-> Item(interface, floor + num_layers)]
                      right == [bottom |-> Item(interface, -(floor + 1)),
                                top |-> Item(interface, -(floor + num_layers + 1))]
                      mid == RDivInt(RAdd(right.bottom[1], left.bottom[1]), 2)
                  IN  [left |-> left, right |-> right,
                       angles |-> <<Angle(left, mid), Angle(right, mid)>>]

\* DataMap.contactangle(num_layers, floor) on the array a: the Exception
\* raised, or the angles with the cells they are taken from.
ContactAngle(a, num_layers, floor) ==
    IF floor < 0 \/ num_layers < 1 THEN RaisedException
    ELSE LET interface == Interface(a, FALSE)
         IN  IF 2 * (floor + num_layers) > Len(interface) THEN RaisedException
             ELSE LET left == [bottom |-> Item(interface, floor),
                               top |-> Item(interface, floor + num_layers)]
                      right == [bottom |-> Item(interface, -(floor + 1)),
                                top |-> Item(interface, -(floor + num_layers + 1))]
                      mid == RDivInt(RAdd(right.bottom[1], left.bottom[1]), 2)
                  IN  [left |-> left, right |-> right,
                       angles |-> <<Angle(left, mid), Angle(right, mid)>>]

\* The maps whose interface is taken.
FaceShapes ==
    {s \in (1 .. MaxFaceRows) \X (1 .. MaxFaceCols) : s[1] * s[2] <= MaxFaceCells}

InitFace == ConstructedOf(FaceShapes, Samples)

\* self.interface(get_cell_numbers=g)
DoInterface(cap) ==
    \E g \in BOOLEAN :
        /\ calls < cap
        /\ op' = [name |-> "interface", get_cell_numbers |-> g,
                  result |-> Interface(cells, g)]
        /\ calls' = calls + 1
        /\ UNCHANGED <<cells, info, derived, defaults>>

\* self.floor
DoFloor(cap) ==
    /\ calls < cap
    /\ op' = [name |-> "floor", result |-> Floor(cells)]
    /\ calls' = calls + 1
    /\ UNCHANGED <<cells, info, derived, defaults>>

\* self.contactangle(num_layers=n, floor=f)
DoContactAngle(cap) ==
    \E n \in 0 .. MaxLayers, f \in -1 .. MaxFloor :
        /\ calls < cap
        /\ op' = [name |-> "contactangle", num_layers |-> n, floor |-> f,
                  result |-> ContactAngle(cells, n, f)]
        /\ calls' = calls + 1
        /\ UNCHANGED <<cells, info, derived, defaults>>

NextFace == DoInterface(MaxCalls) \/ DoFloor(MaxCalls) \/ DoContactAngle(MaxCalls)

SpecFace == InitFace /\ [][NextFace]_vars

\* The rows of a that hold a droplet cell.
DropletRows(a) == {i \in Rows(a) : \E j \in Cols(a) : a[i][j].droplet}

\* The t-th row of the set R of rows, counted from the lowest as 1.
NthRow(R, t) == CHOOSE r \in R : Cardinality({q \in R : q < r}) = t - 1

\* The column of the leftmost and of the rightmost droplet cell of row i.
Leftmost(a, i) ==
    CHOOSE c \in Cols(a) :
        a[i][c].droplet /\ \A d \in Cols(a) : a[i][d].droplet => c <= d

Rightmost(a, i) ==
    CHOOSE c \in Cols(a) :
        a[i][c].droplet /\ \A d \in Cols(a) : a[i][d].droplet => c >= d

\* C15: interface() returns the leftmost droplet cell of every row that
\* holds droplet cells, from the lowest row up, then the rightmost droplet
\* cell of every such row from the highest row down; it is empty when no cell
\* is droplet.  The points are positions, or [column, row] with
\* get_cell_numbers.
C15_InterfaceOrder ==
    [][op'.name = "interface" =>
        LET R == DropletRows(cells)
            k == Cardinality(R)
            g == op'.get_cell_numbers
        IN  /\ Len(op'.result) = 2 * k
            /\ \A t \in 1 .. k :
                   LET i == NthRow(R, t)
                   IN  /\ op'.result[t] = Point(cells, g, i, Leftmost(cells, i))
                       /\ op'.result[2 * k + 1 - t]
                              = Point(cells, g, i, Rightmost(cells, i))]_vars

\* interface(get_cell_numbers=True) has run on a map whose lowest row holds
\* no droplet cell and whose droplet is wider than one cell: the last point
\* is the right end of the lowest droplet row.
C15_Witness ==
    /\ op.name = "interface" /\ op.get_cell_numbers
    /\ Len(op.result) >= 4
    /\ 0 \notin DropletRows(cells)
    /\ op.result[1][1] < op.result[Len(op.result)][1]
    /\ op.result[1][2] = op.result[Len(op.result)][2]

\* The row numbers of the points of an interface taken with cell numbers.
PointRows(interface) == [t \in 1 .. Len(interface) |-> interface[t][2]]

\* C16 as claimed: the row numbers of consecutive points of the interface
\* differ by 1 at most, and they do not decrease and then do not increase.
C16_InterfaceConnected ==
    [][(op'.name = "interface" /\ op'.get_cell_numbers) =>
        LET rows == PointRows(op'.result)
            n == Len(rows)
        IN  /\ \A t \in 1 .. n - 1 : Abs(rows[t + 1] - rows[t]) <= 1
            /\ \E top \in 0 .. n :
                   /\ \A t \in 1 .. n - 1 : t < top => rows[t] <= rows[t + 1]
                   /\ \A t \in 1 .. n - 1 : t >= top => rows[t] >= rows[t + 1]]_vars

\* C16 as amended: the row numbers increase over the first half of the
\* points, stay at the middle and decrease over the second half; they differ
\* by 1 at most when no row without droplet cells lies between rows with
\* droplet cells.
C16_InterfaceRows ==
    [][(op'.name = "interface" /\ op'.get_cell_numbers) =>
        LET rows == PointRows(op'.result)
            k == Len(rows) \div 2
            R == DropletRows(cells)
        IN  /\ Len(rows) = 2 * k
            /\ \A t \in 1 .. k - 1 : rows[t] < rows[t + 1]
            /\ k >= 1 => rows[k] = rows[k + 1]
            /\ \A t \in k + 1 .. 2 * k - 1 : rows[t] > rows[t + 1]
            /\ (\A i \in Rows(cells) :
                    (\E lo \in R : lo < i) /\ (\E hi \in R : hi > i) => i \in R)
                   => \A t \in 1 .. 2 * k - 1 : Abs(rows[t + 1] - rows[t]) <= 1]_vars

\* interface(get_cell_numbers=True) has run on a map with a row without
\* droplet cells between rows with droplet cells: two consecutive points
\* are two rows apart.
C16_Witness ==
    /\ op.name = "interface" /\ op.get_cell_numbers
    /\ Len(op.result) >= 6
    /\ \E t \in 1 .. Len(op.result) - 1 : op.result[t + 1][2] - op.result[t][2] = 2

\* C17: floor is the lowest row that holds a droplet cell, None when there
\* is none; it is the row of the first point of the interface, and reading
\* it changes no cell.
C17_Floor ==
    [][op'.name = "floor" =>
        /\ IF DropletRows(cells) = {} THEN op'.result = None
           ELSE /\ op'.result \in DropletRows(cells)
                /\ \A i \in DropletRows(cells) : op'.result <= i
                /\ op'.result = Interface(cells, TRUE)[1][2]
        /\ cells' = cells]_vars

\* floor has been read on a map whose lowest droplet row is not row 0 and
\* that has droplet cells in several rows.
C17_Witness ==
    /\ op.name = "floor"
    /\ op.result >= 1
    /\ Cardinality(DropletRows(cells)) >= 2

\* C18: contactangle raises when floor + num_layers is more than half the
\* number of points of the interface, which is the number of rows with
\* droplet cells, and when floor < 0 or num_layers < 1.
C18_ContactAngleFails ==
    [][(/\ op'.name = "contactangle"
        /\ \/ op'.floor < 0
           \/ op'.num_layers < 1
           \/ op'.floor + op'.num_layers > Cardinality(DropletRows(cells))) =>
           op'.result = RaisedException]_vars

\* contactangle has raised for a floor and a number of layers that are
\* valid by themselves, on a droplet one row too low for them.
C18_Witness ==
    /\ op.name = "contactangle"
    /\ op.floor >= 1 /\ op.num_layers >= 1
    /\ Cardinality(DropletRows(cells)) >= 2
    /\ op.floor + op.num_layers = Cardinality(DropletRows(cells)) + 1
    /\ op.result = RaisedException

\* The points of a sequence.
Points(list) == {list[t] : t \in 1 .. Len(list)}

\* C19: when contactangle does not raise, both points of the left angle are
\* leftmost droplet cells and both points of the right angle are rightmost
\* droplet cells.
C19_NoCrossing ==
    [][(op'.name = "contactangle" /\ op'.result # RaisedException) =>
        LET left == Points(LeftCells(cells, FALSE, 0))
            right == Points(RightCells(cells, FALSE, 0))
        IN  /\ op'.result.left.bottom \in left
            /\ op'.result.left.top \in left
            /\ op'.result.right.bottom \in right
            /\ op'.result.right.top \in right]_vars

\* C20: when contactangle does not raise, the bottom points are the ends of
\* the droplet in row floor of the map and the top points its ends in row
\* floor + num_layers.
C20_FloorRows ==
    [][(op'.name = "contactangle" /\ op'.result # RaisedException) =>
        LET bottom == op'.floor
            top == op'.floor + op'.num_layers
        IN  /\ bottom \in DropletRows(cells)
            /\ top \in DropletRows(cells)
            /\ op'.result.left.bottom
                   = Point(cells, FALSE, bottom, Leftmost(cells, bottom))
            /\ op'.result.left.top
                   = Point(cells, FALSE, top, Leftmost(cells, top))
            /\ op'.result.right.bottom
                   = Point(cells, FALSE, bottom, Rightmost(cells, bottom))
            /\ op'.result.right.top
                   = Point(cells, FALSE, top, Rightmost(cells, top))]_vars

----------------------------------------------------------------------------
(* The edges of the droplet in one row. *)

\* The largest numbers of rows, of columns and of cells of a map whose
\* edges are looked for.
MaxEdgeRows == 3

MaxEdgeCols == 4

MaxEdgeCells == 8

\* DataMap.x: the position of a column along the x axis.
XOf(a, column) == a[0][column].X

\* The loop of find_edges in System.spread over the cells of the row from
\* cell i on: <<left, right>>, None for a number that was not set.
RECURSIVE FindEdgesLoop(_, _, _, _, _)
FindEdgesLoop(a, floor, i, left, right) ==
    IF i >= Shape1(a) THEN <<left, right>>
    ELSE IF a[floor][i].droplet
         THEN FindEdgesLoop(a, floor, i + 1, IF left = None THEN i ELSE left, i)
         ELSE FindEdgesLoop(a, floor, i + 1, left, right)

\* find_edges of System.spread: the positions <<left, right>> of the edges
\* of row floor, or the empty dictionary, here <<>>.
FindEdges(a, inf, floor) ==
    LET found == FindEdgesLoop(a, floor, 0, None, None)
        cell_size == inf.cells.size.X
    IN  IF found[1] # None /\ found[2] # None
        THEN <<RSub(XOf(a, found[1]), RDivInt(cell_size, 2)),
               RAdd(XOf(a, found[2]), RDivInt(cell_size, 2))>>
        ELSE <<>>

\* The loop of edges in spread.py over the cells of the row from cell i on:
\* 'not left' holds of None and of column 0.
RECURSIVE EdgesLoop(_, _, _, _, _)
EdgesLoop(a, floor, i, left, _edges) ==
    IF i >= Shape1(a) THEN _edges
    ELSE LET isdroplet == a[floor][i].droplet
             newleft == IF isdroplet /\ (left = None \/ left = 0) THEN i ELSE left
         IN  EdgesLoop(a, floor, i + 1, newleft,
                       IF isdroplet THEN <<newleft, i>> ELSE _edges)

\* edges of spread.py after its call of droplet: 'not floor' holds of None
\* and of row 0, and the floor of the map is taken in their place.
Edges(a, floor) ==
    LET found == IF floor = None \/ floor = 0 THEN Floor(a) ELSE floor
    IN  IF found = None \/ found = 0 THEN <<>>
        ELSE EdgesLoop(a, found, 0, None, <<>>)

\* Spread._add: the positions appended to spread['left'] and
\* spread['right'] for the cell numbers _edges.
SpreadAdd(a, inf, _edges) ==
    LET size == inf.cells.size.X
    IN  <<RSub(XOf(a, _edges[1]), RDivInt(size, 2)),
          RAdd(XOf(a, _edges[2]), RDivInt(size, 2))>>

\* The maps whose edges are looked for.
EdgeShapes ==
    {s \in (1 .. MaxEdgeRows) \X (1 .. MaxEdgeCols) : s[1] * s[2] <= MaxEdgeCells}

InitEdges == ConstructedOf(EdgeShapes, Samples)

\* One map of the loop of System.spread: find_edges(datamap, self.floor),
\* self.floor being a row of the map.
DoFindEdges(cap) ==
    \E floor \in Rows(cells) :
        /\ calls < cap
        /\ op' = [name |-> "find_edges", floor |-> floor,
                  result |-> FindEdges(cells, info, floor)]
        /\ calls' = calls + 1
        /\ UNCHANGED <<cells, info, derived, defaults>>

\* One map of the loop of Spread.collect: edges(datamap, floor=floor,
\* min_mass=m), which classifies the cells anew, and _add of what it
\* returns unless that is empty.
DoEdges(cap) ==
    \E floor \in Rows(cells) \cup {None}, m \in MinMasses :
        LET classified == Droplet(cells, m, 1)
            _edges == Edges(classified, floor)
        IN  /\ calls < cap
            /\ cells' = classified
            /\ op' = [name |-> "edges", floor |-> floor,
                      result |-> IF _edges = <<>> THEN <<>>
                                 ELSE SpreadAdd(classified, info, _edges)]
            /\ calls' = calls + 1
            /\ UNCHANGED <<info, derived, defaults>>

NextEdges == DoFindEdges(MaxCalls) \/ DoEdges(MaxCalls)

SpecEdges == InitEdges /\ [][NextEdges]_vars

\* The edges of row i of a: the left side of its leftmost droplet cell and
\* the right side of its rightmost one, nothing for a row without droplet
\* cells.
EdgesOfRow(a, inf, i) ==
    IF \A j \in Cols(a) : ~a[i][j].droplet THEN <<>>
    ELSE <<RSub(a[i][Leftmost(a, i)].X, RDivInt(inf.cells.size.X, 2)),
           RAdd(a[i][Rightmost(a, i)].X, RDivInt(inf.cells.size.X, 2))>>

\* C21: for every row asked for, row 0 and rows with a droplet cell in
\* column 0 included, the edge finders find the left side of the leftmost
\* and the right side of the rightmost droplet cell of that row, and
\* nothing exactly when the row has no droplet cell.
C21_EdgesOfRow ==
    (op.name \in {"find_edges", "edges"} /\ op.floor # None)
        => op.result = EdgesOfRow(cells, info, op.floor)

----------------------------------------------------------------------------
(* The construction of a data map from the samples of a file. *)

\* The largest number of samples of a file and the largest number of
\* samples after which the faster coordinate of a file starts again.
MaxFileLen == 6

MaxPeriod == 3

\* The cell _read makes of sample s, the k-th of a file (from 0) whose
\* coordinate 'fast' starts again after 'period' samples.  Cell centres are
\* 2 apart, starting at 1.
FileCell(s, k, fast, period) ==
    [X |-> RInt(2 * (IF fast = "Y" THEN k \div period ELSE k % period) + 1),
     Y |-> RInt(2 * (IF fast = "Y" THEN k % period ELSE k \div period) + 1),
     N |-> s.N, T |-> s.T, M |-> s.M, U |-> s.U, V |-> s.V,
     droplet |-> FALSE]

\* The one-dimensional arrays _read leaves in self.cells.
Files ==
    UNION {
        {[k \in 1 .. n |-> FileCell(samples[k], k - 1, fast, period)] :
            samples \in [1 .. n -> Samples]} :
        n \in 1 .. MaxFileLen, fast \in {"X", "Y"}, period \in 1 .. MaxPeriod}

\* DataMap.info of the one-dimensional array that _read leaves: ravel of
\* its transpose is the array itself.
InfoOfFlat(flat) ==
    LET numY == NumCellsY(flat, 0)
    IN  IF Len(flat) = 0 \/ numY = -1 THEN IndexError
        ELSE [size  |-> [X |-> <<flat[1].X, flat[Len(flat)].X>>,
                         Y |-> <<flat[1].Y, flat[Len(flat)].Y>>],
              cells |-> [total_cells |-> Len(flat),
                         num_cells |-> [X |-> Len(flat) \div numY, Y |-> numY],
                         size |-> [X |-> RSub(flat[numY + 1].X, flat[1].X),
                                   Y |-> RSub(flat[2].Y, flat[1].Y)]]]

\* Mutant of _grid: the resized array is not transposed, its shape is set
\* to rows by columns.
GridOfFlatNoTranspose(flat, inf) ==
    LET numX == inf.cells.num_cells.X
        numY == inf.cells.num_cells.Y
    IN  [y \in 0 .. numY - 1 |-> [x \in 0 .. numX - 1 |-> flat[y * numX + x + 1]]]

\* DataMap._grid: resize keeps the first numX * numY cells of the array
\* as numX rows of numY cells, and the transpose of that is the grid.
GridOfFlat(flat, inf) ==
    LET numX == inf.cells.num_cells.X
        numY == inf.cells.num_cells.Y
    IN  [y \in 0 .. numY - 1 |-> [x \in 0 .. numX - 1 |-> flat[x * numY + y + 1]]]

\* No DataMap object, and its attributes before they are set.
NotSet == [kind |-> "unset"]

\* What a call leaves that raised nothing.
NoError == [error |-> "none"]

\* A file was read by nobody yet.
InitGrid ==
    \E file \in Files :
        /\ cells = <<>>
        /\ info = NotSet
        /\ derived = NoMap
        /\ op = [name |-> "file", file |-> file]
        /\ calls = 0
        /\ defaults = DefaultFields

\* DataMap(path): _read, info, _grid and droplet with its defaults, or the
\* IndexError of info, which leaves no object.
DoDataMap ==
    /\ op.name = "file"
    /\ LET flat == op.file
           inf == InfoOfFlat(flat)
       IN  IF inf = IndexError
           THEN /\ op' = [name |-> "DataMap", file |-> flat, result |-> IndexError]
                /\ UNCHANGED <<cells, info, defaults>>
           ELSE /\ op' = [name |-> "DataMap", file |-> flat, result |-> NoError]
                /\ cells' = Droplet(GridOfFlat(flat, inf), 0, 1)
                /\ info' = inf
    /\ UNCHANGED <<derived, calls, defaults>>

\* self.info of a constructed map.
DoInfo(cap) ==
    /\ calls < cap
    /\ op.name # "file" /\ cells # <<>>
    /\ op' = [name |-> "info", file |-> op.file, result |-> Info(cells)]
    /\ calls' = calls + 1
    /\ UNCHANGED <<cells, info, derived, defaults>>

\* 'with self.FlatArray(self.cells) as flat' on a constructed map, with an
\* empty body: __exit__ sets the shape of the flattened array, which is
\* another array object than self.cells.
DoFlatArray(cap) ==
    /\ calls < cap
    /\ op.name # "file" /\ cells # <<>>
    /\ op' = [name |-> "FlatArray", file |-> op.file, result |-> FlatArray(cells)]
    /\ calls' = calls + 1
    /\ UNCHANGED <<cells, info, derived, defaults>>

NextGrid == DoDataMap \/ DoInfo(MaxCalls) \/ DoFlatArray(MaxCalls)

SpecGrid == InitGrid /\ [][NextGrid]_vars

\* C22: the construction of a map from a file whose number of samples is
\* not a multiple of the number of cells found for the first column fails
\* and leaves no grid.
C22_MalformedFails ==
    (op.name = "DataMap" /\ NumCellsY(op.file, 0) > 0
        /\ Len(op.file) % NumCellsY(op.file, 0) # 0)
        => (op.result = IndexError /\ cells = <<>>)

\* C23: info fails on a map of a single row or a single column, and the
\* cell size it returns is never 0 along either axis.
C23_DegenerateFails ==
    op.name = "info"
        => /\ (Shape0(cells) < 2 \/ Shape1(cells) < 2) => op.result = IndexError
           /\ op.result # IndexError
                  => /\ op.result.cells.size.X # RInt(0)
                     /\ op.result.cells.size.Y # RInt(0)

\* The values of a cell that were read from the file.
Sample(cell) == [f \in {"X", "Y", "N", "T", "M", "U", "V"} |-> cell[f]]

\* The samples of a file are ordered with Y varying fastest within a fixed
\* X, in ny rows: a column of ny samples of one X after the other, each
\* with the same ny values of Y.
OrderedY(file, ny) ==
    /\ ny >= 1 /\ Len(file) % ny = 0
    /\ \A k, l \in 0 .. Len(file) - 1 :
           /\ (file[k + 1].X = file[l + 1].X) <=> (k \div ny = l \div ny)
           /\ (file[k + 1].Y = file[l + 1].Y) <=> (k % ny = l % ny)

\* C24: a map constructed from samples ordered with Y fastest, in ny rows,
\* holds sample x * ny + y at row y, column x, each row with one Y and each
\* column with one X; its flattened array holds the samples in the order
\* of the file, the grid made of the flattened array is the map again, and
\* the map is the same after the flattened array was left.
C24_RoundTrip ==
    \A ny \in 1 .. Len(op.file) :
        (op.name # "file" /\ cells # <<>> /\ OrderedY(op.file, ny))
            => /\ Shape0(cells) = ny /\ Shape1(cells) * ny = Len(op.file)
               /\ \A y \in Rows(cells) : \A x \in Cols(cells) :
                      /\ Sample(cells[y][x]) = Sample(op.file[x * ny + y + 1])
                      /\ cells[y][x].Y = cells[y][0].Y
                      /\ cells[y][x].X = cells[0][x].X
               /\ op.name = "FlatArray"
                      => /\ Len(op.result) = Len(op.file)
                         /\ \A k \in 1 .. Len(op.file) :
                                Sample(op.result[k]) = Sample(op.file[k])
                         /\ GridOfFlat(op.result, InfoOfFlat(op.result)) = cells

\* A map of two rows and three columns with cells of different values was
\* flattened.
C24_Witness ==
    /\ op.name = "FlatArray" /\ OrderedY(op.file, 2)
    /\ Shape0(cells) = 2 /\ Shape1(cells) = 3
    /\ cells[0][1].M # cells[1][0].M
    /\ cells[0][2].M # cells[1][1].M

----------------------------------------------------------------------------
(* The shear and the viscous dissipation of the cells. *)

\* The largest N of the central differences.
MaxN == 2

\* a * b
RMul(a, b) == Rat(a[1] * b[1], a[2] * b[2])

\* np.sqrt(q), not evaluated: the number whose square is q, which is 0
\* exactly when q is.
Sqrt(q) == [sqrt |-> q]

\* cell[key] = value
SetKey(cell, key, value) ==
    [f \in DOMAIN cell \cup {key} |-> IF f = key THEN value ELSE cell[f]]

\* calc_central_difference of _calc_viscous_dissipation between the cells
\* at first and last, <<row, column>> each.
CalcCentralDifference(a, direction, N, dx, first, last, mass_flow) ==
    LET c0 == a[first[1]][first[2]]
        c1 == a[last[1]][last[2]]
        total_mass == c0.M + c1.M
        difference ==
            IF ~mass_flow THEN RSub(c1[direction], c0[direction])
            ELSE IF total_mass # 0
                 THEN RDivInt(RSub(RScale(c1.M, c1[direction]),
                                   RScale(c0.M, c0[direction])), total_mass)
                 ELSE RInt(0)
    IN  IF difference = RInt(0) THEN difference
        ELSE RDiv(difference, RScale(2 * N, dx))

\* Mutant of calc_central_difference of _calc_cell_shear: only the first
\* cell is asked whether it is droplet.
CalcCentralDifferenceDropletFirst(a, direction, N, dx, first, last, mass_flow) ==
    IF ~a[first[1]][first[2]].droplet
    THEN RaisedException
    ELSE CalcCentralDifference(a, direction, N, dx, first, last, mass_flow)

\* calc_central_difference of _calc_cell_shear: the same, after an
\* Exception for a cell that is not droplet.
CalcCentralDifferenceDroplet(a, direction, N, dx, first, last, mass_flow) ==
    IF ~a[first[1]][first[2]].droplet \/ ~a[last[1]][last[2]].droplet
    THEN RaisedException
    ELSE CalcCentralDifference(a, direction, N, dx, first, last, mass_flow)

\* 2*(dudx**2 + dvdy**2 - (1/3)*(dudx + dvdy)**2) + (dudy + dvdx)**2
Strain(dudx, dvdx, dudy, dvdy) ==
    RAdd(RScale(2, RSub(RAdd(RMul(dudx, dudx), RMul(dvdy, dvdy)),
                        RDivInt(RMul(RAdd(dudx, dvdy), RAdd(dudx, dvdy)), 3))),
         RMul(RAdd(dudy, dvdx), RAdd(dudy, dvdx)))

\* shear_in_cell
ShearInCell(a, row, column, N, size, mass_flow) ==
    LET dudx == CalcCentralDifferenceDroplet(a, "U", N, size.X,
                    <<row, column - N>>, <<row, column + N>>, mass_flow)
        dvdx == CalcCentralDifferenceDroplet(a, "V", N, size.X,
                    <<row, column - N>>, <<row, column + N>>, mass_flow)
        dudy == CalcCentralDifferenceDroplet(a, "U", N, size.Y,
                    <<row - N, column>>, <<row + N, column>>, mass_flow)
        dvdy == CalcCentralDifferenceDroplet(a, "V", N, size.Y,
                    <<row - N, column>>, <<row + N, column>>, mass_flow)
    IN  IF RaisedException \in {dudx, dvdx, dudy, dvdy} THEN Sqrt(RInt(0))
        ELSE Sqrt(Strain(dudx, dvdx, dudy, dvdy))

\* The cells of the loops over self.cells[N:-N] and cell_row[N:-N].
Inner(a, N) ==
    LET rows == Slice(Shape0(a), N, -N)
        cols == Slice(Shape1(a), N, -N)
    IN  (rows[1] .. rows[2] - 1) \X (cols[1] .. cols[2] - 1)

\* DataMap._calc_cell_shear
CalcCellShear(a, N, mass_flow, if_droplet) ==
    LET size == Info(a).cells.size
        shear(i, j) ==
            IF <<i, j>> \in Inner(a, N) /\ a[i][j].droplet
            THEN ShearInCell(a, i, j, N, size, mass_flow)
            ELSE Sqrt(RInt(0))
    IN  [i \in DOMAIN a |-> [j \in DOMAIN a[i] |->
            LET cell == SetKey(a[i][j], "shear", shear(i, j))
            IN  IF if_droplet /\ shear(i, j) = Sqrt(RInt(0))
                THEN [cell EXCEPT !.droplet = FALSE]
                ELSE cell]]

\* convert_viscosity: the model holds converted viscosities and the
\* dissipations made of them in units of 1e6/1.66054.
ConvertViscosity(viscosity) == viscosity

\* dissipation_in_cell
DissipationInCell(a, row, column, viscosity, N, size, delta_t, mass_flow) ==
    LET volume == RMul(RMul(size.X, size.Y), size.Z)
        dudx == CalcCentralDifference(a, "U", N, size.X,
                    <<row, column - N>>, <<row, column + N>>, mass_flow)
        dvdx == CalcCentralDifference(a, "V", N, size.X,
                    <<row, column - N>>, <<row, column + N>>, mass_flow)
        dudy == CalcCentralDifference(a, "U", N, size.Y,
                    <<row - N, column>>, <<row + N, column>>, mass_flow)
        dvdy == CalcCentralDifference(a, "V", N, size.Y,
                    <<row - N, column>>, <<row + N, column>>, mass_flow)
    IN  RMul(RMul(RMul(viscosity, Strain(dudx, dvdx, dudy, dvdy)), volume),
             delta_t)

\* DataMap._calc_viscous_dissipation
CalcViscousDissipation(a, N, viscosity, width, delta_t, mass_flow) ==
    LET size == [X |-> Info(a).cells.size.X, Y |-> Info(a).cells.size.Y,
                 Z |-> width]
        converted == ConvertViscosity(viscosity)
    IN  [i \in DOMAIN a |-> [j \in DOMAIN a[i] |->
            SetKey(a[i][j], "visc_dissipation",
                   IF <<i, j>> \in Inner(a, N) /\ a[i][j].droplet
                   THEN DissipationInCell(a, i, j, converted, N, size,
                                          delta_t, mass_flow)
                   ELSE RInt(0))]]

\* The values one sample can hold here: an empty cell and two filled cells
\* of different mass and flow.
ShearSamples ==
    { [N |-> 0, T |-> RInt(0), M |-> 0,  U |-> RInt(0), V |-> RInt(0)],
      [N |-> 2, T |-> RInt(1), M |-> 10, U |-> RInt(1), V |-> RInt(-1)],
      [N |-> 3, T |-> RInt(1), M |-> 20, U |-> RInt(3), V |-> RInt(2)] }

\* The viscosity, width and delta_t keywords handed to the methods.
Keywords ==
    { [viscosity |-> RInt(1),   width |-> RInt(1), delta_t |-> RInt(1)],
      [viscosity |-> Rat(1, 2), width |-> RInt(1), delta_t |-> RInt(3)],
      [viscosity |-> RInt(1),   width |-> RInt(3), delta_t |-> RInt(1)] }

\* The samples of a map of 2 * d + 1 rows and columns: its middle cell, the
\* four cells d rows or columns from it, and the samples 'other' for the
\* rest.
CrossSamples(d, middle, west, east, south, north, other) ==
    [i \in 0 .. 2 * d |-> [j \in 0 .. 2 * d |->
        CASE <<i, j>> = <<d, d>>     -> middle
          [] <<i, j>> = <<d, 0>>     -> west
          [] <<i, j>> = <<d, 2 * d>> -> east
          [] <<i, j>> = <<0, d>>     -> south
          [] <<i, j>> = <<2 * d, d>> -> north
          [] OTHER -> other[<<i, j>>]]]

\* The samples of the rest of such a map: any of Samples in a map of 3 rows,
\* filled cells in a larger one.
OtherSamples(d) ==
    IF d = 1 THEN [{0, 2} \X {0, 2} -> Samples]
    ELSE {[c \in (0 .. 2 * d) \X (0 .. 2 * d) |->
              [N |-> 2, T |-> RInt(1), M |-> 10, U |-> RInt(1), V |-> RInt(-1)]]}

\* The map constructed from such samples.
InitShear ==
    \E d \in 1 .. MaxN :
        \E middle, west, east, south, north \in ShearSamples :
            \E other \in OtherSamples(d) :
                LET samples == CrossSamples(d, middle, west, east, south,
                                            north, other)
                    grid == Grid(samples, 2 * d + 1, 2 * d + 1)
                IN  /\ cells = Droplet(grid, 0, 1)
                    /\ info = Info(grid)
                    /\ derived = NoMap
                    /\ op = [name |-> "init"]
                    /\ calls = 0
                    /\ defaults = DefaultFields

\* self._calc_cell_shear(N, mass_flow, if_droplet)
DoCalcCellShear(cap) ==
    \E N \in 1 .. MaxN, mass_flow \in BOOLEAN, if_droplet \in BOOLEAN :
        /\ calls < cap
        /\ cells' = CalcCellShear(cells, N, mass_flow, if_droplet)
        /\ op' = [name |-> "_calc_cell_shear", N |-> N,
                  mass_flow |-> mass_flow, if_droplet |-> if_droplet]
        /\ calls' = calls + 1
        /\ UNCHANGED <<info, derived, defaults>>

\* self._calc_viscous_dissipation(N, viscosity, width, delta_t, mass_flow)
DoCalcViscousDissipation(cap) ==
    \E N \in 1 .. MaxN, kw \in Keywords, mass_flow \in BOOLEAN :
        /\ calls < cap
        /\ cells' = CalcViscousDissipation(cells, N, kw.viscosity, kw.width,
                                           kw.delta_t, mass_flow)
        /\ op' = [name |-> "_calc_viscous_dissipation", N |-> N,
                  viscosity |-> kw.viscosity, width |-> kw.width,
                  delta_t |-> kw.delta_t, mass_flow |-> mass_flow]
        /\ calls' = calls + 1
        /\ UNCHANGED <<info, derived, defaults>>

NextShear == DoCalcCellShear(MaxCalls) \/ DoCalcViscousDissipation(MaxCalls)

SpecShear == InitShear /\ [][NextShear]_vars

\* The cells at N rows or N columns from cell (i, j) that its differences
\* are taken between.
Stencil(i, j, N) == {<<i, j - N>>, <<i, j + N>>, <<i - N, j>>, <<i + N, j>>}

\* Cell (i, j) is less than N rows or N columns from the edge of a.
NearEdge(a, i, j, N) ==
    \/ i < N \/ i > Shape0(a) - 1 - N
    \/ j < N \/ j > Shape1(a) - 1 - N

C26_DissipationOfShear ==
    [][op'.name = "_calc_viscous_dissipation"
        => LET size == Info(cells).cells.size
               factor == RMul(RMul(ConvertViscosity(op'.viscosity),
                                   RMul(RMul(size.X, size.Y), op'.width)),
                              op'.delta_t)
               sheared == CalcCellShear(cells, op'.N, op'.mass_flow, FALSE)
           IN  \A i \in Rows(cells) : \A j \in Cols(cells) :
                   cells'[i][j].visc_dissipation
                       = RMul(factor, sheared[i][j].shear.sqrt)]_vars

----------------------------------------------------------------------------
(* The droplet after droplet(). *)

\* C27: after droplet() every droplet cell has a mass that is not 0 and not
\* below min_mass, and is anchored on the flags as they are now: within
\* 'columns' of it there is a column k with a droplet cell in the row above
\* or below, and the cells of its own row from it to k are all droplet.  A
\* further connectivity pass would change no flag.
C27_DropletAnchored ==
    op.name = "droplet"
        => /\ \A i \in Rows(cells), j \in Cols(cells) :
                  cells[i][j].droplet
                      => /\ cells[i][j].M # 0
                         /\ cells[i][j].M >= op.min_mass
                         /\ OneRowAnchored(cells, i, j, op.columns)
           /\ CellsInside(cells, op.columns) = cells

\* droplet() with a min_mass above 0 has kept a cell that has no droplet
\* cell directly above or below it, and has left a filled cell out.
C27_Witness ==
    /\ op.name = "droplet" /\ op.min_mass > 0
    /\ \E i \in Rows(cells), j \in Cols(cells) :
           /\ cells[i][j].droplet
           /\ \A r \in {i + 1, i - 1} \cap Rows(cells) : ~cells[r][j].droplet
    /\ \E i \in Rows(cells), j \in Cols(cells) :
           cells[i][j].M # 0 /\ ~cells[i][j].droplet

----------------------------------------------------------------------------
(* The total viscous dissipation. *)

\* The largest number of calls in a row of which the dissipation is summed.
MaxSumCalls == 2

\* The loop of _sum_viscous_dissipation over the cells from its k-th on,
\* row by row: energy is the sum so far.
RECURSIVE Energy(_, _, _)
Energy(a, k, energy) ==
    IF k >= Shape0(a) * Shape1(a) THEN energy
    ELSE Energy(a, k + 1,
                RAdd(energy, a[k \div Shape1(a)][k % Shape1(a)].visc_dissipation))

\* Mutant of _sum_viscous_dissipation: force is not looked at.
SumViscousDissipationUnforced(a, width, delta_t, N, viscosity, mass_flow, force) ==
    LET calculated ==
            IF "visc_dissipation" \notin DOMAIN a[0][0]
            THEN CalcViscousDissipation(a, N, viscosity, width, delta_t, mass_flow)
            ELSE a
    IN  [cells |-> calculated, energy |-> Energy(calculated, 0, RInt(0))]

\* DataMap._sum_viscous_dissipation: the cells it leaves and the energy it
\* returns.
SumViscousDissipation(a, width, delta_t, N, viscosity, mass_flow, force) ==
    LET calculated ==
            IF force \/ "visc_dissipation" \notin DOMAIN a[0][0]
            THEN CalcViscousDissipation(a, N, viscosity, width, delta_t, mass_flow)
            ELSE a
    IN  [cells |-> calculated, energy |-> Energy(calculated, 0, RInt(0))]

\* The maps whose dissipation is summed: 3 rows and 3 columns, filled in
\* the corners.
InitSum ==
    \E middle, west, east, south, north \in ShearSamples :
        \E other \in OtherSamples(1) :
            LET samples == CrossSamples(1, middle, west, east, south, north,
                                        other)
                grid == Grid(samples, 3, 3)
            IN  /\ \A c \in DOMAIN other : other[c].M # 0
                /\ cells = Droplet(grid, 0, 1)
                /\ info = Info(grid)
                /\ derived = NoMap
                /\ op = [name |-> "init"]
                /\ calls = 0
                /\ defaults = DefaultFields

\* self._sum_viscous_dissipation(width, delta_t, N, viscosity, mass_flow,
\* force)
DoSumViscousDissipation(cap) ==
    \E N \in 1 .. MaxN, kw \in Keywords, mass_flow \in BOOLEAN,
       force \in BOOLEAN :
        LET sum == SumViscousDissipation(cells, kw.width, kw.delta_t, N,
                                         kw.viscosity, mass_flow, force)
        IN  /\ calls < cap
            /\ cells' = sum.cells
            /\ op' = [name |-> "_sum_viscous_dissipation", N |-> N,
                      viscosity |-> kw.viscosity, width |-> kw.width,
                      delta_t |-> kw.delta_t, mass_flow |-> mass_flow,
                      force |-> force, result |-> sum.energy]
            /\ calls' = calls + 1
            /\ UNCHANGED <<info, derived, defaults>>

NextSum == DoSumViscousDissipation(MaxSumCalls) \/ DoDropletSource(MaxSumCalls)

SpecSum == InitSum /\ [][NextSum]_vars

\* The sum of the dissipations that a calculation with the keywords of the
\* call op gives the cells of a.
TotalOf(a, call) ==
    LET calculated == CalcViscousDissipation(a, call.N, call.viscosity,
                          call.width, call.delta_t, call.mass_flow)
        total[S \in SUBSET (Rows(a) \X Cols(a))] ==
            IF S = {} THEN RInt(0)
            ELSE LET c == CHOOSE c \in S : TRUE
                 IN  RAdd(calculated[c[1]][c[2]].visc_dissipation,
                          total[S \ {c}])
    IN  total[Rows(a) \X Cols(a)]

\* C28 as claimed: _sum_viscous_dissipation returns the total dissipation
\* of the map for the keywords of the call and the flags as they are,
\* whatever was called before and whether or not force is given.
C28_SumOfCurrentCall ==
    [][op'.name = "_sum_viscous_dissipation"
        => op'.result = TotalOf(cells, op')]_vars

\* The sum of the dissipations the cells of a hold.
StoredOf(a) ==
    LET total[S \in SUBSET (Rows(a) \X Cols(a))] ==
            IF S = {} THEN RInt(0)
            ELSE LET c == CHOOSE c \in S : TRUE
                 IN  RAdd(a[c[1]][c[2]].visc_dissipation, total[S \ {c}])
    IN  total[Rows(a) \X Cols(a)]

\* C28 as amended: with force, or on a map that holds no dissipation yet,
\* _sum_viscous_dissipation returns the total for the keywords of the call
\* and the flags as they are; otherwise it returns the sum of the
\* dissipations the cells hold from the last calculation and leaves them.
C28_SumForcedOrStored ==
    [][op'.name = "_sum_viscous_dissipation"
        => IF op'.force \/ "visc_dissipation" \notin DOMAIN cells[0][0]
           THEN op'.result = TotalOf(cells, op')
           ELSE op'.result = StoredOf(cells) /\ cells' = cells]_vars

\* A second call, with force and other keywords than those the cells'
\* dissipations would be summed to without it, returned a total above 0.
C28_Witness ==
    /\ op.name = "_sum_viscous_dissipation" /\ op.force /\ calls = 2
    /\ op.N = 1 /\ op.delta_t = RInt(3)
    /\ op.result # RInt(0)

----------------------------------------------------------------------------
(* Saving data maps. *)

\* The largest number of cells of a map that is saved and the largest
\* number of calls of save in a row.
MaxSaveCells == 4

MaxSaveCalls == 2

\* The setter of DataMap.fields: the fields a map holds for the keyword
\* 'fields' given to DataMap.
Fields(_fields) ==
    {"X", "Y"} \cup
        CASE _fields = "all"  -> {"U", "V", "M", "N", "T"}
          [] _fields = "dens" -> {"M", "N", "T"}
          [] _fields = "flow" -> {"U", "V"}

\* '%f' % cell[field]: the decimal number with six places next to the
\* value, as its number of millionths; N and M are held as integers, the
\* other fields as rationals.
Millionths == 1000000

Format(cell, field) ==
    LET v == IF field \in {"N", "M"} THEN RInt(cell[field]) ELSE cell[field]
    IN  (2 * v[1] * Millionths + v[2]) \div (2 * v[2])

\* The loop of save over fields[:], from its k-th field on: the header and
\* the list 'fields', from which a field the map does not hold is removed.
RECURSIVE HeaderLoop(_, _, _, _, _)
HeaderLoop(copy, k, self_fields, header, fields) ==
    IF k > Len(copy) THEN [header |-> header, fields |-> fields]
    ELSE IF copy[k] \in self_fields
         THEN HeaderLoop(copy, k + 1, self_fields, Append(header, copy[k]), fields)
         ELSE HeaderLoop(copy, k + 1, self_fields, header,
                         SelectSeq(fields, LAMBDA f : f # copy[k]))

\* DataMap.save of a map with the fields self_fields and the cells a, the
\* keyword 'fields' bound to the list fields: the header and the lines
\* written, and the list as the call leaves it.
Save(self_fields, a, fields) ==
    LET loop == HeaderLoop(fields, 1, self_fields, <<>>, fields)
        flat == FlatArray(a)
    IN  [header |-> loop.header,
         lines  |-> [k \in 1 .. Len(flat) |->
                        [f \in 1 .. Len(loop.fields) |->
                            Format(flat[k], loop.fields[f])]],
         fields |-> loop.fields]

\* The maps that are saved.
SaveShapes ==
    {s \in (1 .. MaxMapRows) \X (1 .. MaxMapCols) : s[1] * s[2] <= MaxSaveCells}

\* The lists handed to save as 'fields'; <<>> stands for a call without
\* the keyword.
FieldLists == {<<>>, <<"X", "U", "V", "Y">>, <<"M", "X", "Y">>}

InitSave == ConstructedOf(SaveShapes, Samples)

\* DataMap(path, fields=kind).save(_path) or .save(_path, list), path a file
\* with the samples of the cells: a call without the list works on
\* the list of the defaults and leaves it changed.
DoSave(cap) ==
    \E kind \in {"all", "dens", "flow"}, list \in FieldLists :
        LET written == Save(Fields(kind), cells,
                            IF list = <<>> THEN defaults ELSE list)
        IN  /\ calls < cap
            /\ op' = [name |-> "save", kind |-> kind, fields |-> list,
                      header |-> written.header, lines |-> written.lines]
            /\ defaults' = IF list = <<>> THEN written.fields ELSE defaults
            /\ calls' = calls + 1
            /\ UNCHANGED <<cells, info, derived>>

NextSave == DoSave(MaxSaveCalls)

SpecSave == InitSave /\ [][NextSave]_vars

\* C29: save without a list of fields writes, whatever was saved before,
\* the header of the fields the map holds in the order X, Y, N, T, M, U, V
\* and one line per cell with the values of these fields.
C29_DefaultSave ==
    (op.name = "save" /\ op.fields = <<>>)
        => LET held == SelectSeq(<<"X", "Y", "N", "T", "M", "U", "V">>,
                                 LAMBDA f : f \in Fields(op.kind))
           IN  /\ op.header = held
               /\ Len(op.lines) = Shape0(cells) * Shape1(cells)
               /\ \A k \in 1 .. Len(op.lines) :
                      op.lines[k] =
                          [f \in 1 .. Len(held) |->
                              Format(FlatArray(cells)[k], held[f])]

----------------------------------------------------------------------------
(* remove_empty_cells of util.py, on the data maps of the older modules: a  *)
(* dictionary with one list of values per field.  Here 'cells' is that      *)
(* dictionary, 'op' the call with its position in the loop, and 'calls' the *)
(* number of times the body of the loop has run.                            *)

\* The largest number of cells of such a data map and the largest number
\* of runs of the body of the loop that are followed.
MaxListLen == 3

MaxIterations == 4

\* The cells of such a data map: (X, U, V, M) of a cell without flow, of
\* one with flow along x and of a heavy one with flow along y.
ListSamples ==
    { [X |-> RInt(1), U |-> RInt(0), V |-> RInt(0), M |-> 0],
      [X |-> RInt(3), U |-> RInt(1), V |-> RInt(0), M |-> 1],
      [X |-> RInt(5), U |-> RInt(0), V |-> RInt(1), M |-> 10] }

\* The values of the keyword 'fields': the default set(), the set of
\* find_contact_line_spread, and sets without 'U' or with 'U' alone.
FieldSets == {{}, {"X", "U", "V", "M"}, {"V", "M"}, {"U"}}

\* The values of the keyword 'Mmin': the default -np.inf and a mass.
Mmins == {NegInf, RInt(5)}

\* del(list[i])
Del(list, i) ==
    [k \in 1 .. Len(list) - 1 |-> IF k <= i THEN list[k] ELSE list[k + 1]]

\* The data map of the cells of the sequence s.
DataMapOf(s) ==
    [f \in {"X", "U", "V", "M"} |-> [k \in 1 .. Len(s) |-> s[k][f]]]

\* remove_empty_cells(datamap, fields=fields, Mmin=Mmin) was called and is
\* at the test of its loop with i = 0.
InitUtil ==
    \E n \in 0 .. MaxListLen :
        \E s \in [1 .. n -> ListSamples], fields \in FieldSets, Mmin \in Mmins :
            /\ cells = DataMapOf(s)
            /\ info = NotSet
            /\ derived = NoMap
            /\ op = [name |-> "remove_empty_cells", fields |-> fields,
                     Mmin |-> Mmin, i |-> 0, at |-> "while", cells |-> n]
            /\ calls = 0
            /\ defaults = DefaultFields

\* The test of the loop fails: the function returns.
Return ==
    /\ op.at = "while"
    /\ ~(op.i < Len(cells.U))
    /\ op' = [op EXCEPT !.at = "returned"]
    /\ UNCHANGED <<cells, info, derived, calls, defaults>>

\* The body of the loop runs once: the cell at i is kept and i advances,
\* or the cell is deleted from the lists of 'fields'; reading or deleting
\* past the end of a list raises IndexError.
Body ==
    LET i == op.i
        flow == cells.U[i + 1] # RInt(0) \/ cells.V[i + 1] # RInt(0)
        readsV == cells.U[i + 1] = RInt(0)
    IN  /\ op.at = "while"
        /\ op.i < Len(cells.U)
        /\ calls < MaxIterations
        /\ calls' = calls + 1
        /\ IF \/ (readsV /\ i >= Len(cells.V))
              \/ (~readsV /\ i >= Len(cells.M))
           THEN /\ op' = [op EXCEPT !.at = "IndexError"]
                /\ UNCHANGED cells
           ELSE IF flow /\ ~RLess(RInt(cells.M[i + 1]), op.Mmin)
           THEN /\ op' = [op EXCEPT !.i = i + 1]
                /\ UNCHANGED cells
           ELSE IF \E f \in op.fields : i >= Len(cells[f])
           THEN /\ op' = [op EXCEPT !.at = "IndexError"]
                /\ UNCHANGED cells
           ELSE /\ cells' = [f \in DOMAIN cells |->
                                IF f \in op.fields THEN Del(cells[f], i)
                                ELSE cells[f]]
                /\ UNCHANGED op
        /\ UNCHANGED <<info, derived, defaults>>

NextUtil == Return \/ Body

SpecUtil == InitUtil /\ [][NextUtil]_vars

\* C30: remove_empty_cells terminates: each run of the body of its loop
\* deletes a cell or moves on to the next, so that the body runs no more
\* often than the map has cells.
C30_Terminates == op.name = "remove_empty_cells" => calls <= op.cells

====
